---- MODULE Spec2Model ----
(***************************************************************************)
(* folium/plugins/timestamped_wmstilelayer.py: TimestampedWmsTileLayers.   *)
(*                                                                         *)
(* The state is a small page-composition world: the plugin instances       *)
(* (their stored configuration, their layers object and their parent), the *)
(* script children and the header children of every Figure, and a record   *)
(* of the last call (its result and the effects it had, in order).  Each   *)
(* instance also remembers the arguments it was constructed with.          *)
(* Construct is __init__, AddTo attaches a node to a container, Render is  *)
(* render().                                                               *)
(***************************************************************************)
EXTENDS Integers, Sequences, FiniteSets, TLC

VARIABLES node, script, header, last

vars == <<node, script, header, last>>

(***************************************************************************)
(* Bounds of the model.                                                    *)
(***************************************************************************)
NumInst == 2
MaxLayers == 2

(***************************************************************************)
(* Python values handed to the constructor.  One record shape for all of   *)
(* them: t is the type, and b, n, s carry a bool, a number (an int, or the *)
(* tenths of a float) and a str.  The only list among them is [].          *)
(***************************************************************************)
PyNone == [t |-> "none", b |-> FALSE, n |-> 0, s |-> ""]
PyBool(x) == [t |-> "bool", b |-> x, n |-> 0, s |-> ""]
PyInt(k) == [t |-> "int", b |-> FALSE, n |-> k, s |-> ""]
PyFloat(tenths) == [t |-> "float", b |-> FALSE, n |-> tenths, s |-> ""]
PyStr(str) == [t |-> "str", b |-> FALSE, n |-> 0, s |-> str]
PyEmptyList == [t |-> "list", b |-> FALSE, n |-> 0, s |-> ""]

\* bool(v), and the truth test of a template {% if %} and of `x if c else y`.
Truthy(v) ==
    CASE v.t = "none" -> FALSE
      [] v.t = "bool" -> v.b
      [] v.t = "int" -> v.n # 0
      [] v.t = "float" -> v.n # 0
      [] v.t = "str" -> Len(v.s) > 0
      [] v.t = "list" -> FALSE

Digits == <<"0", "1", "2", "3", "4", "5", "6", "7", "8", "9">>

IsDigit(c) == \E d \in 1..10 : Digits[d] = c

DigitVal(c) == (CHOOSE d \in 1..10 : Digits[d] = c) - 1

RECURSIVE Strip(_)
\* str.strip() as int() applies it to a str argument.
Strip(s) ==
    IF Len(s) = 0 THEN s
    ELSE IF SubSeq(s, 1, 1) = " " THEN Strip(SubSeq(s, 2, Len(s)))
    ELSE IF SubSeq(s, Len(s), Len(s)) = " " THEN Strip(SubSeq(s, 1, Len(s) - 1))
    ELSE s

RECURSIVE AllDigits(_)
AllDigits(s) ==
    IF Len(s) = 0 THEN TRUE
    ELSE IsDigit(SubSeq(s, 1, 1)) /\ AllDigits(SubSeq(s, 2, Len(s)))

RECURSIVE DigitsVal(_, _)
DigitsVal(s, acc) ==
    IF Len(s) = 0 THEN acc
    ELSE DigitsVal(SubSeq(s, 2, Len(s)), 10 * acc + DigitVal(SubSeq(s, 1, 1)))

Raised(e) == [ok |-> FALSE, val |-> 0, err |-> e]

Returned(k) == [ok |-> TRUE, val |-> k, err |-> ""]

\* int(str): optional surrounding blanks, an optional sign, decimal digits.
IntOfStr(str) ==
    LET s == Strip(str)
        signed == Len(s) > 0 /\ SubSeq(s, 1, 1) \in {"+", "-"}
        body == IF signed THEN SubSeq(s, 2, Len(s)) ELSE s
    IN  IF Len(body) = 0 \/ ~AllDigits(body) THEN Raised("ValueError")
        ELSE IF signed /\ SubSeq(s, 1, 1) = "-" THEN Returned(0 - DigitsVal(body, 0))
        ELSE Returned(DigitsVal(body, 0))

\* int(v): a float truncates towards zero, True is 1, None and a list raise.
IntConv(v) ==
    CASE v.t = "int" -> Returned(v.n)
      [] v.t = "bool" -> Returned(IF v.b THEN 1 ELSE 0)
      [] v.t = "float" ->
            Returned(IF v.n >= 0 THEN v.n \div 10 ELSE 0 - ((0 - v.n) \div 10))
      [] v.t = "str" -> IntOfStr(v.s)
      [] v.t = "none" -> Raised("TypeError")
      [] v.t = "list" -> Raised("TypeError")

RECURSIVE NatStr(_)
NatStr(k) ==
    IF k < 10 THEN Digits[k + 1] ELSE NatStr(k \div 10) \o Digits[(k % 10) + 1]

\* str(v) as the template's {{ ... }} prints a value (autoescape is off).
PyStrOf(v) ==
    CASE v.t = "str" -> v.s
      [] v.t = "none" -> "None"
      [] v.t = "bool" -> IF v.b THEN "True" ELSE "False"
      [] v.t = "int" -> IF v.n < 0 THEN "-" \o NatStr(0 - v.n) ELSE NatStr(v.n)
      [] v.t = "float" ->
            (IF v.n < 0 THEN "-" ELSE "")
                \o NatStr((IF v.n < 0 THEN 0 - v.n ELSE v.n) \div 10) \o "."
                \o NatStr((IF v.n < 0 THEN 0 - v.n ELSE v.n) % 10)
      [] v.t = "list" -> "[]"

(***************************************************************************)
(* Tile layers and the objects passed as data.                             *)
(***************************************************************************)
\* Two WmsTileLayer instances, and two objects that are not tile layers:
\* one without a version attribute, one without a get_name method.
W1 == [cls |-> "WmsTileLayer", name |-> "wms_tile_layer_1", has_name |-> TRUE,
       version |-> "1.1.1", has_version |-> TRUE]
W2 == [cls |-> "WmsTileLayer", name |-> "wms_tile_layer_2", has_name |-> TRUE,
       version |-> "1.3.0", has_version |-> TRUE]
NoVersion == [cls |-> "object", name |-> "marker_3", has_name |-> TRUE,
              version |-> "", has_version |-> FALSE]
NoName == [cls |-> "object", name |-> "", has_name |-> FALSE,
           version |-> "1.3.0", has_version |-> TRUE]

TileLayers == {W1, W2}

Elements == {W1, W2, NoVersion, NoName}

SeqsUpTo(S, k) == UNION {[1..m -> S] : m \in 0..k}

\* A data object: a tile layer itself, a list, a generator (a one-shot
\* iterator, pos elements of which are consumed) or None.  ref tells the
\* caller's object ("arg") from a list the constructor makes ("new").
ALayer(w) == [kind |-> "layer", ref |-> "arg", items |-> <<w>>, pos |-> 0]
AList(xs) == [kind |-> "list", ref |-> "arg", items |-> xs, pos |-> 0]
AGenerator(xs) == [kind |-> "gen", ref |-> "arg", items |-> xs, pos |-> 0]
ANone == [kind |-> "none", ref |-> "arg", items |-> <<>>, pos |-> 0]

\* isinstance(data, WmsTileLayer)
IsWmsTileLayer(data) == data.kind = "layer" /\ data.items[1].cls = "WmsTileLayer"

(***************************************************************************)
(* __init__                                                                *)
(***************************************************************************)
DefaultTransitionTime == 200
DefaultLoop == PyBool(FALSE)
DefaultAutoPlay == PyBool(FALSE)
DefaultPeriod == PyStr("P1D")
DefaultTimeInterval == PyBool(FALSE)

StoreTransitionTime(transition_time) == IntConv(transition_time)

StoreLoop(loop) == Truthy(loop)

StoreAutoPlay(auto_play) == Truthy(auto_play)

\* A variant that stores str(period).
StorePeriod_str(period) == PyStr(PyStrOf(period))

StorePeriod(period) == period

StoreTimeInterval(time_interval) == time_interval

\* A variant that copies the iterable: list(data).
StoreLayers_copy(data) ==
    [kind |-> "list", ref |-> "new", items |-> data.items, pos |-> 0]

StoreLayers(data) ==
    IF IsWmsTileLayer(data)
    THEN [kind |-> "list", ref |-> "new", items |-> <<data.items[1]>>, pos |-> 0]
    ELSE data

Insts == 1..NumInst

Figures == {"figure_1", "figure_2"}

\* The containers a node can be added to, and the root each one hangs under:
\* two maps, each in a Figure of its own, and a bare element in no Figure.
Containers == {"map_1", "map_2", "div_1"}

RootOf(c) ==
    CASE c = "map_1" -> "figure_1"
      [] c = "map_2" -> "figure_2"
      [] c = "div_1" -> "div_1"

NoArgs == [data |-> ANone, transition_time |-> PyNone, loop |-> PyNone,
           auto_play |-> PyNone, period |-> PyNone, time_interval |-> PyNone]

Absent == [state |-> "absent", transition_time |-> 0, loop |-> FALSE,
           auto_play |-> FALSE, period |-> PyNone, time_interval |-> PyNone,
           layers |-> ANone, parent |-> "None", args |-> NoArgs]

NoScript == [present |-> FALSE, parent |-> "", timeDimension |-> <<>>,
             position |-> "", autoPlay |-> "", transitionTime |-> 0, loop |-> "",
             adapters |-> <<>>]

Init ==
    /\ node = [i \in Insts |-> Absent]
    /\ script = [f \in Figures |-> [i \in Insts |-> NoScript]]
    /\ header = [f \in Figures |-> <<>>]
    /\ last = [op |-> "none", inst |-> 0, result |-> "ok",
               effects |-> <<>>]

\* TimestampedWmsTileLayers(data, transition_time, loop, auto_play, period,
\* time_interval): int(transition_time) is the one statement that can raise.
Construct(i, data, transition_time, loop, auto_play, period, time_interval) ==
    LET tt == StoreTransitionTime(transition_time)
        args == [data |-> data, transition_time |-> transition_time, loop |-> loop,
                 auto_play |-> auto_play, period |-> period,
                 time_interval |-> time_interval]
    IN  /\ node[i].state = "absent"
        /\ node' = [node EXCEPT ![i] =
              IF tt.ok
              THEN [state |-> "built", transition_time |-> tt.val,
                    loop |-> StoreLoop(loop), auto_play |-> StoreAutoPlay(auto_play),
                    period |-> StorePeriod(period),
                    time_interval |-> StoreTimeInterval(time_interval),
                    layers |-> StoreLayers(data), parent |-> "None", args |-> args]
              ELSE [Absent EXCEPT !.state = "failed", !.args = args]]
        /\ last' = [op |-> "construct", inst |-> i,
                    result |-> IF tt.ok THEN "ok" ELSE tt.err,
                    effects |-> <<>>]
        /\ UNCHANGED <<script, header>>

\* node.add_to(c), the composition framework's attachment of a built node.
AddTo(i, c) ==
    /\ node[i].state = "built"
    /\ node[i].parent = "None"
    /\ node' = [node EXCEPT ![i].parent = c]
    /\ last' = [op |-> "add_to", inst |-> i, result |-> "ok",
                effects |-> <<>>]
    /\ UNCHANGED <<script, header>>

(***************************************************************************)
(* The template's script macro.                                            *)
(***************************************************************************)
\* A variant that tests `is not False` instead of truth.
EmitTimeInterval_notFalse(time_interval) ==
    ~(time_interval.t = "bool" /\ ~time_interval.b)

\* {% if this.time_interval %}
EmitTimeInterval(time_interval) == Truthy(time_interval)

\* L.timeDimension({period: "...", timeInterval: "..."}): its fields in order.
TimeDimensionOptions(n) ==
    <<[field |-> "period", value |-> PyStrOf(n.period)]>>
        \o (IF EmitTimeInterval(n.time_interval)
            THEN <<[field |-> "timeInterval", value |-> PyStrOf(n.time_interval)]>>
            ELSE <<>>)

\* {{'true' if flag else 'false'}}
JsBool(flag) == IF flag THEN "true" ELSE "false"

\* A variant that prints the loop flag as autoPlay.
AutoPlayOption_loop(n) == JsBool(n.loop)

AutoPlayOption(n) == JsBool(n.auto_play)

LoopOption(n) == JsBool(n.loop)

TransitionTimeOption(n) == n.transition_time

\* {{ layer.version }}: an attribute the object lacks is the template
\* engine's undefined value, which prints as the empty string.
LayerVersion(layer) == IF layer.has_version THEN layer.version ELSE ""

\* One pass of the {% for %} body.
LayerDecl(layer, parentName) ==
    [var |-> layer.name, wrapped |-> layer.name, updateTimeDimension |-> "false",
     wmsVersion |-> LayerVersion(layer), addTo |-> parentName]

\* What iterating the layers object yields now: a list yields all its
\* elements every time, a generator only those it has not yielded yet.
Remaining(layers) ==
    IF layers.kind = "gen"
    THEN SubSeq(layers.items, layers.pos + 1, Len(layers.items))
    ELSE layers.items

RECURSIVE ForLayers_unique(_, _)
\* A variant that skips a layer equal to the one after it.
ForLayers_unique(xs, parentName) ==
    IF Len(xs) = 0 THEN [ok |-> TRUE, decls |-> <<>>, used |-> 0]
    ELSE IF ~Head(xs).has_name THEN [ok |-> FALSE, decls |-> <<>>, used |-> 1]
    ELSE LET rest == ForLayers_unique(Tail(xs), parentName)
             dup == Len(xs) > 1 /\ xs[2] = xs[1]
         IN  [ok |-> rest.ok,
              decls |-> IF ~rest.ok THEN <<>>
                        ELSE IF dup THEN rest.decls
                        ELSE <<LayerDecl(Head(xs), parentName)>> \o rest.decls,
              used |-> 1 + rest.used]

RECURSIVE ForLayers(_, _)
\* {% for layer in this.layers %}: layer.get_name() on an object without
\* that method calls the undefined value, which raises; used counts the
\* elements taken from the iterator, the failing one included.
ForLayers(xs, parentName) ==
    IF Len(xs) = 0 THEN [ok |-> TRUE, decls |-> <<>>, used |-> 0]
    ELSE IF ~Head(xs).has_name THEN [ok |-> FALSE, decls |-> <<>>, used |-> 1]
    ELSE LET rest == ForLayers(Tail(xs), parentName)
         IN  [ok |-> rest.ok,
              decls |-> IF rest.ok THEN <<LayerDecl(Head(xs), parentName)>> \o rest.decls
                        ELSE <<>>,
              used |-> 1 + rest.used]

\* script(this, kwargs): the fragment, or the error the macro raises, and
\* the layers object as the iteration leaves it.
ScriptMacro(n) ==
    IF n.layers.kind = "none"
    THEN [result |-> "TypeError", script |-> NoScript, layers |-> n.layers]
    ELSE LET loop == ForLayers(Remaining(n.layers), n.parent)
             after == IF n.layers.kind = "gen"
                      THEN [n.layers EXCEPT !.pos = n.layers.pos + loop.used]
                      ELSE n.layers
         IN  IF ~loop.ok
             THEN [result |-> "UndefinedError", script |-> NoScript, layers |-> after]
             ELSE [result |-> "ok",
                   script |-> [present |-> TRUE, parent |-> n.parent,
                               timeDimension |-> TimeDimensionOptions(n),
                               position |-> "bottomleft",
                               autoPlay |-> AutoPlayOption(n),
                               transitionTime |-> TransitionTimeOption(n),
                               loop |-> LoopOption(n),
                               adapters |-> loop.decls],
                   layers |-> after]

(***************************************************************************)
(* render                                                                  *)
(***************************************************************************)
NodeName(i) == "timestamped_wms_tile_layers_" \o ToString(i)

\* self.get_root(): the top of the parent chain, the node itself when it
\* has no parent.
GetRoot(i) == IF node[i].parent = "None" THEN NodeName(i) ELSE RootOf(node[i].parent)

\* A variant that takes any root for a Figure.
IsFigure_any(root) == TRUE

\* isinstance(figure, Figure)
IsFigure(root) == root \in Figures

\* Only a Figure has the header and script children render writes to.
HasSinks(root) == root \in Figures

\* The six links render registers, in the order of its add_child calls.
Links ==
    <<[name |-> "jquery2.0.0", tag |-> "JavascriptLink"],
      [name |-> "jqueryui1.10.2", tag |-> "JavascriptLink"],
      [name |-> "iso8601", tag |-> "JavascriptLink"],
      [name |-> "leaflet.timedimension", tag |-> "JavascriptLink"],
      [name |-> "highlight.js_css", tag |-> "CssLink"],
      [name |-> "leaflet.timedimension_css", tag |-> "CssLink"]>>

\* A variant that passes no name=, so that the child's own generated name
\* is used.
LinkName_anonymous(k, i) == Links[k].name \o "_" \o ToString(i)

\* A variant that registers the stylesheets before the scripts.
LinkName_cssFirst(k, i) == Links[((k + 3) % Len(Links)) + 1].name

\* The name= argument of the k-th add_child call of instance i.
LinkName(k, i) == Links[k].name

\* children.add_child(child, name=name): the children are kept in insertion
\* order under their names; a name already there keeps its place and gets
\* the new child.
AddChild(children, name, child) ==
    IF \E j \in 1..Len(children) : children[j].name = name
    THEN [j \in 1..Len(children) |->
            IF children[j].name = name THEN child ELSE children[j]]
    ELSE Append(children, child)

RECURSIVE RegisterLinks(_, _, _)
\* The add_child calls from the k-th to the last, on the header children.
RegisterLinks(children, k, i) ==
    IF k > Len(Links) THEN children
    ELSE RegisterLinks(
            AddChild(children, LinkName(k, i),
                     [name |-> LinkName(k, i), tag |-> Links[k].tag]),
            k + 1, i)

\* The base class's render: assert the root is a Figure, run the script
\* macro, store the fragment among the Figure's script children under the
\* node's name.
MacroRender(i) ==
    LET root == GetRoot(i)
    IN  IF ~IsFigure(root)
        THEN [result |-> "AssertionError", script |-> NoScript,
              layers |-> node[i].layers]
        ELSE IF ~HasSinks(root)
        THEN [result |-> "AttributeError", script |-> NoScript,
              layers |-> node[i].layers]
        ELSE ScriptMacro(node[i])

\* render(): the base class's render, the assertion, the six add_child calls.
Render(i) ==
    LET root == GetRoot(i)
        base == MacroRender(i)
        result == IF base.result # "ok" THEN base.result
                  ELSE IF ~IsFigure(root) THEN "AssertionError"
                  ELSE "ok"
    IN  /\ node[i].state = "built"
        /\ node' = [node EXCEPT ![i].layers = base.layers]
        /\ script' = IF base.result = "ok"
                     THEN [script EXCEPT ![root][i] = base.script]
                     ELSE script
        /\ header' = IF result = "ok"
                     THEN [header EXCEPT ![root] = RegisterLinks(header[root], 1, i)]
                     ELSE header
        /\ last' = [op |-> "render", inst |-> i, result |-> result,
                    effects |-> IF result = "ok"
                                THEN <<"script">>
                                        \o [k \in 1..Len(Links) |-> LinkName(k, i)]
                                ELSE <<>>]

(***************************************************************************)
(* Spec: one instance with the default configuration and every shape of    *)
(* data: a tile layer, a list or a generator of up to MaxLayers elements   *)
(* (tile layers and objects lacking an attribute, repeats included), None. *)
(***************************************************************************)
DataValues ==
    {ALayer(w) : w \in TileLayers}
        \cup {AList(xs) : xs \in SeqsUpTo(Elements, MaxLayers)}
        \cup {AGenerator(xs) : xs \in SeqsUpTo(Elements, MaxLayers)}
        \cup {ANone}

ConstructDefault(i, data) ==
    Construct(i, data, PyInt(DefaultTransitionTime), DefaultLoop, DefaultAutoPlay,
              DefaultPeriod, DefaultTimeInterval)

Next ==
    \/ \E data \in DataValues : ConstructDefault(1, data)
    \/ \E c \in {"map_1", "div_1"} : AddTo(1, c)
    \/ Render(1)

Spec == Init /\ [][Next]_vars

(***************************************************************************)
(* SpecConfig: one instance, every combination of configuration values.    *)
(***************************************************************************)
TransitionTimes ==
    {PyInt(200), PyInt(500), PyInt(0), PyBool(TRUE), PyFloat(37), PyFloat(0 - 37),
     PyStr("500"), PyStr(" 42 "), PyStr("-7"), PyStr("abc"), PyStr(""),
     PyStr("3.7"), PyNone, PyEmptyList}

Flags == {PyBool(TRUE), PyBool(FALSE), PyNone, PyInt(1), PyStr(""), PyStr("no")}

Periods == {PyStr("P1D"), PyStr("PT1H"), PyNone}

TimeIntervals ==
    {PyBool(FALSE), PyBool(TRUE), PyNone, PyStr(""), PyInt(0),
     PyStr("2016-01-01/2016-01-08")}

ConfigData == {ALayer(W1), AList(<<W1, W2>>), ANone}

NextConfig ==
    \/ /\ node[1].state = "absent"
       /\ \E data \in ConfigData, transition_time \in TransitionTimes,
             loop \in Flags, auto_play \in Flags, period \in Periods,
             time_interval \in TimeIntervals :
               Construct(1, data, transition_time, loop, auto_play, period,
                         time_interval)
    \/ \E c \in {"map_1", "div_1"} : AddTo(1, c)
    \/ Render(1)

SpecConfig == Init /\ [][NextConfig]_vars

(***************************************************************************)
(* SpecPage: NumInst instances on two pages whose headers may already hold *)
(* children registered by other elements, some under the same names.       *)
(***************************************************************************)
PriorHeaders ==
    {<<>>,
     <<[name |-> "meta_http", tag |-> "Element"]>>,
     <<[name |-> "iso8601", tag |-> "JavascriptLink"],
       [name |-> "meta_http", tag |-> "Element"],
       [name |-> "jquery2.0.0", tag |-> "JavascriptLink"]>>}

PageData == {ALayer(W1), AList(<<W1, W2>>), AList(<<NoName>>)}

InitPage ==
    /\ node = [i \in Insts |-> Absent]
    /\ script = [f \in Figures |-> [i \in Insts |-> NoScript]]
    /\ header \in [Figures -> PriorHeaders]
    /\ last = [op |-> "none", inst |-> 0, result |-> "ok",
               effects |-> <<>>]

NextPage ==
    \/ \E i \in Insts, data \in PageData : ConstructDefault(i, data)
    \/ \E i \in Insts, c \in Containers : AddTo(i, c)
    \/ \E i \in Insts : Render(i)

SpecPage == InitPage /\ [][NextPage]_vars

(***************************************************************************)
(* Properties of Spec.                                                     *)
(***************************************************************************)
AllTileLayers(xs) == \A k \in 1..Len(xs) : xs[k] \in TileLayers

\* The fragment instance i has among the script children of its Figure.
ScriptOf(i) ==
    IF GetRoot(i) \in Figures THEN script[GetRoot(i)][i] ELSE NoScript

\* C1: rendering a node whose data was a list of N tile layers (N >= 0,
\* repeats allowed) raises nothing and emits exactly N adapter declarations,
\* the k-th naming the k-th layer as variable and as wrapped layer, with
\* that layer's version, updateTimeDimension false and the parent as the
\* addTo target; a tile layer passed directly gives exactly one.
C1_AdaptersFollowLayers ==
    LET n == node[1]
        out == ScriptOf(1)
    IN  (/\ last.op = "render"
         /\ GetRoot(1) \in Figures
         /\ n.layers.kind = "list"
         /\ AllTileLayers(n.layers.items))
        => /\ last.result = "ok"
           /\ out.present
           /\ Len(out.adapters) = Len(n.layers.items)
           /\ \A k \in 1..Len(n.layers.items) :
                out.adapters[k] =
                    [var |-> n.layers.items[k].name,
                     wrapped |-> n.layers.items[k].name,
                     updateTimeDimension |-> "false",
                     wmsVersion |-> n.layers.items[k].version,
                     addTo |-> n.parent]
           /\ (n.args.data.kind = "layer" => Len(out.adapters) = 1)
           /\ (n.args.data.kind = "list" =>
                 Len(out.adapters) = Len(n.args.data.items))

C1_Witness ==
    /\ last.op = "render"
    /\ last.result = "ok"
    /\ node[1].args.data = AList(<<W2, W2>>)
    /\ Len(script["figure_1"][1].adapters) = 2

\* C3: render on a node whose root is no Figure (detached, or under a
\* container that is in no Figure) raises the assertion error and changes
\* neither the script children nor the header of any Figure.
C3_DetachedRenderFails ==
    [][(Render(1) /\ GetRoot(1) \notin Figures)
        => /\ last'.result = "AssertionError"
           /\ last'.effects = <<>>
           /\ UNCHANGED <<script, header>>]_vars

C3_Witness ==
    /\ last.op = "render"
    /\ last.result = "AssertionError"
    /\ node[1].parent = "div_1"
    /\ \A f \in Figures : header[f] = <<>> /\ ~script[f][1].present

\* C7: a tile layer passed as data is stored as a new one-element list
\* holding that layer; anything else is stored as the caller's own object,
\* the same elements in the same order.
C7_LayersNormalized ==
    LET n == node[1]
    IN  n.state = "built"
        => IF n.args.data.kind = "layer"
           THEN /\ n.layers.kind = "list"
                /\ n.layers.items = <<n.args.data.items[1]>>
           ELSE /\ n.layers.ref = "arg"
                /\ n.layers.kind = n.args.data.kind
                /\ n.layers.items = n.args.data.items

C7_Witness ==
    /\ node[1].state = "built"
    /\ node[1].args.data = AGenerator(<<W2, NoName>>)
    /\ node[1].layers.items = <<W2, NoName>>

HasBadElement(xs) ==
    \E k \in 1..Len(xs) : ~xs[k].has_name \/ ~xs[k].has_version

\* C8: for a list holding an element without get_name or without version,
\* construction succeeds and render of the node in a Figure raises the
\* attribute error in both cases, never emitting a declaration with an
\* empty identifier or an empty wmsVersion.
C8_BadElementRaisesAtRender ==
    LET n == node[1]
    IN  (n.args.data.kind = "list" /\ HasBadElement(n.args.data.items))
        => /\ n.state = "built"
           /\ (last.op = "render" /\ GetRoot(1) \in Figures)
                => /\ last.result = "UndefinedError"
                   /\ ~ScriptOf(1).present

\* C9: once a node has a fragment in its Figure, a further render leaves the
\* fragment, the configuration and the layers as they were.
C9_RenderIdempotent ==
    [][(Render(1) /\ ScriptOf(1).present)
        => /\ last'.result = "ok"
           /\ script' = script
           /\ node' = node]_vars

(***************************************************************************)
(* Properties of SpecConfig.                                               *)
(***************************************************************************)
FieldsOf(options) == [j \in 1..Len(options) |-> options[j].field]

\* C4: the rendered time-dimension options hold a timeInterval field exactly
\* when time_interval is truthy, its value the given value printed between
\* the quotes; for False, "", None and 0 there is no such field; period is
\* always the first field.
C4_TimeIntervalIffTruthy ==
    LET n == node[1]
        given == n.args.time_interval
        td == ScriptOf(1).timeDimension
    IN  ScriptOf(1).present
        => /\ td[1] = [field |-> "period", value |-> PyStrOf(n.args.period)]
           /\ (given \in {PyBool(FALSE), PyStr(""), PyNone, PyInt(0)}
                 => FieldsOf(td) = <<"period">>)
           /\ (given \in {PyBool(TRUE), PyStr("2016-01-01/2016-01-08")}
                 => FieldsOf(td) = <<"period", "timeInterval">>)
           /\ (Truthy(given) <=> \E j \in 1..Len(td) : td[j].field = "timeInterval")
           /\ \A j \in 1..Len(td) :
                td[j].field = "timeInterval" => td[j].value = PyStrOf(given)
           /\ (given = PyStr("2016-01-01/2016-01-08")
                 => td[2].value = "2016-01-01/2016-01-08")

C4_Witness ==
    /\ ScriptOf(1).present
    /\ node[1].args.time_interval = PyStr("2016-01-01/2016-01-08")
    /\ Len(ScriptOf(1).timeDimension) = 2

\* C5: the rendered control options hold autoPlay true exactly when
\* auto_play is truthy, loop true exactly when loop is truthy, and
\* transitionTime the integer conversion of transition_time; the defaults
\* give false, false and 200; the position is always bottomleft.
C5_ControlOptions ==
    LET n == node[1]
        out == ScriptOf(1)
    IN  out.present
        => /\ out.autoPlay = (IF Truthy(n.args.auto_play) THEN "true" ELSE "false")
           /\ out.loop = (IF Truthy(n.args.loop) THEN "true" ELSE "false")
           /\ out.transitionTime = IntConv(n.args.transition_time).val
           /\ out.position = "bottomleft"
           /\ (n.args.transition_time = PyStr(" 42 ") => out.transitionTime = 42)
           /\ (n.args.transition_time = PyFloat(0 - 37) => out.transitionTime = 0 - 3)
           /\ (n.args.transition_time = PyBool(TRUE) => out.transitionTime = 1)
           /\ ((/\ n.args.transition_time = PyInt(DefaultTransitionTime)
                /\ n.args.loop = DefaultLoop
                /\ n.args.auto_play = DefaultAutoPlay)
                 => /\ out.autoPlay = "false"
                    /\ out.loop = "false"
                    /\ out.transitionTime = 200)
           /\ ((/\ n.args.transition_time = PyInt(500)
                /\ n.args.loop = PyBool(TRUE)
                /\ n.args.auto_play = PyBool(TRUE))
                 => /\ out.autoPlay = "true"
                    /\ out.loop = "true"
                    /\ out.transitionTime = 500)

C5_Witness ==
    /\ ScriptOf(1).present
    /\ node[1].args.auto_play = PyStr("no")
    /\ node[1].args.loop = PyStr("")
    /\ node[1].args.transition_time = PyStr("500")
    /\ ScriptOf(1).autoPlay = "true"
    /\ ScriptOf(1).loop = "false"
    /\ ScriptOf(1).transitionTime = 500

\* The transition_time values of the model that int() refuses.
NotConvertible == {PyStr("abc"), PyStr(""), PyStr("3.7"), PyNone, PyEmptyList}

Count(children, name) ==
    Cardinality({j \in 1..Len(children) : children[j].name = name})

LinkNames ==
    <<"jquery2.0.0", "jqueryui1.10.2", "iso8601", "leaflet.timedimension",
      "highlight.js_css", "leaflet.timedimension_css">>

\* C2: a header of a Figure in which some instance has rendered holds each
\* of the six link names exactly once, however many instances rendered
\* there and however often.
C2_LinksOncePerPage ==
    \A f \in Figures :
        (\E i \in Insts : script[f][i].present)
            => \A k \in 1..Len(LinkNames) : Count(header[f], LinkNames[k]) = 1

C2_Witness ==
    /\ \A i \in Insts : script["figure_1"][i].present
    /\ last.op = "render"
    /\ \A k \in 1..Len(LinkNames) : Count(header["figure_1"], LinkNames[k]) = 1

HoldsNone(children) ==
    \A k \in 1..Len(LinkNames) : Count(children, LinkNames[k]) = 0

\* C10: a successful render first emits the script fragment and then
\* registers jQuery, jQuery-UI, the ISO-8601 library and the time-dimension
\* library as script links, then the highlight and the time-dimension
\* control stylesheets; a header that held none of the six names gets them
\* appended in that order, and no render moves a child the header holds.
C10_RegistrationOrder ==
    [][\A i \in Insts :
        (Render(i) /\ last'.result = "ok")
            => LET f == GetRoot(i)
               IN  /\ last'.effects = <<"script">> \o LinkNames
                   /\ script'[f][i].present
                   /\ HoldsNone(header[f])
                        => header'[f] = header[f] \o
                             [k \in 1..Len(LinkNames) |->
                                [name |-> LinkNames[k],
                                 tag |-> IF k <= 4 THEN "JavascriptLink"
                                         ELSE "CssLink"]]
                   /\ \A j \in 1..Len(header[f]) :
                        header'[f][j].name = header[f][j].name]_vars

C10_Witness ==
    /\ last.op = "render"
    /\ last.result = "ok"
    /\ \A i \in Insts : script["figure_1"][i].present
    /\ Len(header["figure_1"]) = 7
    /\ header["figure_1"][1].name = "meta_http"
    /\ \A k \in 1..Len(LinkNames) : header["figure_1"][k + 1].name = LinkNames[k]

====
